---- MODULE Spec2Model ----
(***************************************************************************)
(* A model of rustle (src/main.rs): the GameState guess engine and the     *)
(* game_loop that drives it from terminal key events.                      *)
(*                                                                         *)
(* A Rust String is modelled as the sequence of its chars.  A char is a    *)
(* TLA+ string naming it: "a" and "b" are one-byte (ASCII) chars, "ae"     *)
(* stands for U+00E4, whose UTF-8 encoding is two bytes.  String::len()    *)
(* is the BYTE length (operator len), chars().count() is the number of     *)
(* chars (Len of the sequence); the source uses both.                      *)
(***************************************************************************)
EXTENDS Integers, Sequences, FiniteSets, TLC

\* ------------------------------------------------------------------ bounds

\* The engine itself never stops accepting guesses; the model of the bare
\* engine lets the history grow to this many entries (rejected guesses are
\* still tried on a full history).
MaxGuesses == 2

\* Direct calls of guess() are tried with every string of at most this many
\* chars.
MaxArgChars == 2

\* ------------------------------------------------------- chars and strings

Chars == {"a", "b", "ae"}

\* char::len_utf8
len_utf8(c) == IF c = "ae" THEN 2 ELSE 1

\* String::len(): the number of bytes of the UTF-8 encoding.
RECURSIVE len(_)
len(s) == IF s = <<>> THEN 0 ELSE len_utf8(Head(s)) + len(Tail(s))

\* str::contains(char)
contains(s, c) == \E k \in 1..Len(s) : s[k] = c

\* String::push
push(s, c) == Append(s, c)

\* String::pop: removes the last char (not the last byte).
pop(s) == IF s = <<>> THEN s ELSE SubSeq(s, 1, Len(s) - 1)

StringsUpTo(n) == UNION {[1..k -> Chars] : k \in 0..n}

\* ------------------------------------------------------------- word lists

ab == <<"a", "b">>
ba == <<"b", "a">>
bb == <<"b", "b">>
a1 == <<"a">>
ae1 == <<"ae">>

\* The contents of a word list (words.txt, or the vector a caller hands to
\* GameState::new): an ASCII list with a word of another length, a list
\* with a word of the same byte length but fewer chars, and a list whose
\* first word is not ASCII.
WordLists == {{ab, ba, a1}, {ab, ae1, bb}, {ae1, ab}}

\* ------------------------------------------------------------------ state

VARIABLES
    word,           \* GameState.word
    valid_words,    \* GameState.valid_words (membership is all that is used)
    guesses,        \* GameState.guesses
    current_guess,  \* GameState.current_guess
    last_error,     \* GameState.last_error: "None", "WrongLength", "InvalidWord"
    call,           \* the last engine operation: its name, argument, result
                    \* and the fields it started from, and the result of
                    \* the most recent confirm()
    pc,             \* where the driver is: "api" (bare engine), or in
                    \* game_loop "await", "done", "panicked"
    key,            \* the last key stdin.next() returned in game_loop: "none",
                    \* "esc", "backspace", "char", "enter", "other", "eof"
    exit_by,        \* how game_loop left its loop: "none", "esc", "won", "tries"
    screen,         \* what render_game_state drew last
    out             \* the lines println! wrote

engine == <<word, valid_words, guesses, current_guess, last_error>>
vars == <<word, valid_words, guesses, current_guess, last_error, call, pc,
          key, exit_by, screen, out>>

\* GameState.max_tries, and the literal of game_loop's while condition.
max_tries == 6

GameError == {"WrongLength", "InvalidWord"}

\* ----------------------------------------------------------------- engine

\* won() as it would be if it looked for the word anywhere in the history.
won_of_any(gs) == \E k \in 1..Len(gs) : gs[k] = word

\* GameState::won, on a history gs
won_of(gs) == IF gs = <<>> THEN FALSE ELSE gs[Len(gs)] = word

won == won_of(guesses)

\* guess() with its two checks in the other order.
guess_result_order(g) ==
    IF g \notin valid_words THEN "InvalidWord"
    ELSE IF len(g) # len(word) THEN "WrongLength"
    ELSE IF won_of(Append(guesses, g)) THEN "Ok_true" ELSE "Ok_false"

\* guess() asking won() before it pushes the guess.
guess_result_stale_won(g) ==
    IF len(g) # len(word) THEN "WrongLength"
    ELSE IF g \notin valid_words THEN "InvalidWord"
    ELSE IF won_of(guesses) THEN "Ok_true" ELSE "Ok_false"

\* GameState::guess: the result and the history it leaves.
guess_result(g) ==
    IF len(g) # len(word) THEN "WrongLength"
    ELSE IF g \notin valid_words THEN "InvalidWord"
    ELSE IF won_of(Append(guesses, g)) THEN "Ok_true" ELSE "Ok_false"

\* guess() pushing the guess before it looks the word up.
guess_history_early_push(g) ==
    IF len(g) # len(word) THEN guesses ELSE Append(guesses, g)

\* guess() putting the guess in front (insert(0, guess) for push(guess)).
guess_history_insert_front(g) ==
    IF guess_result(g) \in GameError THEN guesses ELSE <<g>> \o guesses

guess_history(g) ==
    IF guess_result(g) \in GameError THEN guesses ELSE Append(guesses, g)

\* A mark that is Hit wherever the word contains the char.
hit_of_anywhere(c, i) ==
    IF i >= Len(word) THEN "panic"
    ELSE IF contains(word, c) THEN "Hit"
    ELSE "Miss"

\* One mark of get_guess_hits: char c of the guess at 0-based position i.
\* word.chars().nth(i).unwrap() panics when the word has no char i.
hit_of(c, i) ==
    IF i >= Len(word) THEN "panic"
    ELSE IF c = word[i + 1] THEN "Hit"
    ELSE IF contains(word, c) THEN "Contains"
    ELSE "Miss"

\* The outcome of a call that may panic: the value it returns, or a panic
\* (an unwrap of None) and no value.
Returns(v) == [panic |-> FALSE, value |-> v]
Panics == [panic |-> TRUE, value |-> <<>>]

\* get_guess_hits reading guesses.last() for guesses.get(guess_position).
hits_of_last(gs, guess_position) ==
    IF guess_position >= Len(gs) THEN Panics
    ELSE LET g == gs[Len(gs)]
             marks == [k \in 1..Len(g) |-> hit_of(g[k], k - 1)]
         IN  IF \E k \in 1..Len(g) : marks[k] = "panic" THEN Panics
             ELSE Returns(marks)

\* GameState::get_guess_hits on history gs, 0-based guess_position:
\* guesses.get(guess_position).unwrap(), then one mark per char of the guess.
hits_of(gs, guess_position) ==
    IF guess_position >= Len(gs) THEN Panics
    ELSE LET g == gs[guess_position + 1]
             marks == [k \in 1..Len(g) |-> hit_of(g[k], k - 1)]
         IN  IF \E k \in 1..Len(g) : marks[k] = "panic" THEN Panics
             ELSE Returns(marks)

get_guess_hits(guess_position) == hits_of(guesses, guess_position)

\* The fields an operation started from.
Old == [word |-> word, valid_words |-> valid_words, guesses |-> guesses,
        current_guess |-> current_guess, last_error |-> last_error]

\* GameState::new
New(w, vw) ==
    /\ word = w
    /\ valid_words = vw
    /\ guesses = <<>>
    /\ current_guess = <<>>
    /\ last_error = "None"
    /\ call = [op |-> "new", arg |-> <<>>, ret |-> "none",
               last_confirm |-> "none",
               old |-> [word |-> w, valid_words |-> vw, guesses |-> <<>>,
                        current_guess |-> <<>>, last_error |-> "None"]]

\* GameState::guess called directly, as the tests do.
Guess(g) ==
    /\ guesses' = guess_history(g)
    /\ call' = [op |-> "guess", arg |-> g, ret |-> guess_result(g),
                last_confirm |-> call.last_confirm, old |-> Old]
    /\ UNCHANGED <<word, valid_words, current_guess, last_error>>

\* back() also dropping the error, as if an edit dismissed it.
back_resets_error ==
    /\ current_guess' = IF len(current_guess) > 0 THEN pop(current_guess)
                        ELSE current_guess
    /\ last_error' = "None"
    /\ call' = [op |-> "back", arg |-> <<>>, ret |-> "none",
                last_confirm |-> call.last_confirm, old |-> Old]
    /\ UNCHANGED <<word, valid_words, guesses>>

\* GameState::back
back ==
    /\ current_guess' = IF len(current_guess) > 0 THEN pop(current_guess)
                        ELSE current_guess
    /\ call' = [op |-> "back", arg |-> <<>>, ret |-> "none",
                last_confirm |-> call.last_confirm, old |-> Old]
    /\ UNCHANGED <<word, valid_words, guesses, last_error>>

\* confirm() leaving the buffer in place when the guess is rejected.
confirm_keeps_rejected ==
    /\ guesses' = guess_history(current_guess)
    /\ last_error' = IF guess_result(current_guess) \in GameError
                     THEN guess_result(current_guess) ELSE "None"
    /\ current_guess' = IF guess_result(current_guess) \in GameError
                        THEN current_guess ELSE <<>>
    /\ call' = [op |-> "confirm", arg |-> current_guess,
                ret |-> guess_result(current_guess),
                last_confirm |-> guess_result(current_guess), old |-> Old]
    /\ UNCHANGED <<word, valid_words>>

\* confirm() without the reset_error() of its Ok arm.
confirm_no_reset ==
    /\ guesses' = guess_history(current_guess)
    /\ last_error' = IF guess_result(current_guess) \in GameError
                     THEN guess_result(current_guess) ELSE last_error
    /\ current_guess' = <<>>
    /\ call' = [op |-> "confirm", arg |-> current_guess,
                ret |-> guess_result(current_guess),
                last_confirm |-> guess_result(current_guess), old |-> Old]
    /\ UNCHANGED <<word, valid_words>>

\* GameState::confirm, with set_last_error and reset_error
confirm ==
    /\ guesses' = guess_history(current_guess)
    /\ last_error' = IF guess_result(current_guess) \in GameError
                     THEN guess_result(current_guess) ELSE "None"
    /\ current_guess' = <<>>
    /\ call' = [op |-> "confirm", arg |-> current_guess,
                ret |-> guess_result(current_guess),
                last_confirm |-> guess_result(current_guess), old |-> Old]
    /\ UNCHANGED <<word, valid_words>>

\* GameState::add_char
add_char(c) ==
    /\ current_guess' = IF len(current_guess) < len(word)
                        THEN push(current_guess, c) ELSE current_guess
    /\ call' = [op |-> "add_char", arg |-> <<c>>, ret |-> "none",
                last_confirm |-> call.last_confirm, old |-> Old]
    /\ UNCHANGED <<word, valid_words, guesses, last_error>>

\* --------------------------------------------------- the engine on its own

Init ==
    /\ \E vw \in WordLists : \E w \in vw : New(w, vw)
    /\ pc = "api"
    /\ key = "none"
    /\ exit_by = "none"
    /\ screen = [rows |-> <<>>, error |-> "None"]
    /\ out = <<>>

ApiGuess ==
    /\ pc = "api"
    /\ \E g \in StringsUpTo(MaxArgChars) : Guess(g)
    /\ Len(guesses') <= MaxGuesses
    /\ UNCHANGED <<pc, key, exit_by, screen, out>>

ApiBack ==
    /\ pc = "api"
    /\ back
    /\ UNCHANGED <<pc, key, exit_by, screen, out>>

ApiConfirm ==
    /\ pc = "api"
    /\ confirm
    /\ Len(guesses') <= MaxGuesses
    /\ UNCHANGED <<pc, key, exit_by, screen, out>>

ApiAddChar ==
    /\ pc = "api"
    /\ \E c \in Chars : add_char(c)
    /\ UNCHANGED <<pc, key, exit_by, screen, out>>

Next == ApiGuess \/ ApiBack \/ ApiConfirm \/ ApiAddChar

Spec == Init /\ [][Next]_vars

\* ------------------------------------------------------- render_game_state

\* width: the word's byte length, as u16
width == len(word)

Filler(n) == [k \in 1..n |-> "_"]

\* The text of row y (0-based) for history gs and buffer cg: the submitted
\* guess, the buffer padded with '_' while its byte length is below width,
\* or width times '_'.
line_guess(gs, cg, y) ==
    IF y < Len(gs) THEN gs[y + 1]
    ELSE IF y = Len(gs)
         THEN cg \o Filler(IF len(cg) < width THEN width - len(cg) ELSE 0)
         ELSE Filler(width)

\* The marks of row y: get_guess_hits for a submitted row, else width
\* times HitInfo::None.
line_hits(gs, y) ==
    IF y < Len(gs) THEN hits_of(gs, y)
    ELSE Returns([k \in 1..width |-> "None"])

\* Row y as drawn: width cells, each a char on its mark's colour.  It
\* panics when get_guess_hits does, or when line_hits.get(x).unwrap() or
\* line_guess.chars().nth(x).unwrap() finds nothing at an x below width.
render_row(gs, cg, y) ==
    LET text == line_guess(gs, cg, y)
        hits == line_hits(gs, y)
    IN  IF hits.panic THEN Panics
        ELSE IF Len(hits.value) < width \/ Len(text) < width THEN Panics
        ELSE Returns([x \in 1..width |->
                         [ch |-> text[x], hit |-> hits.value[x]]])

\* render_game_state: the max_tries rows and the error line.
render(gs, cg, le) ==
    LET rows == [y \in 1..max_tries |-> render_row(gs, cg, y - 1)]
    IN  IF \E y \in 1..max_tries : rows[y].panic THEN Panics
        ELSE Returns([rows |-> [y \in 1..max_tries |-> rows[y].value],
                      error |-> le])

\* -------------------------------------------------------------- game_loop

\* init_game: the word list is the file's lines, the word one of them.
init_game ==
    \E words \in WordLists : \E w \in words : New(w, words)

\* game_loop up to its first stdin.next(): the first render.
LoopInit ==
    /\ init_game
    /\ pc = "await"
    /\ key = "none"
    /\ exit_by = "none"
    /\ screen = render(<<>>, <<>>, "None").value
    /\ out = <<>>

\* The code after the loop without its won() test.
Finish_always_lost(how, o) ==
    /\ exit_by' = how
    /\ IF render(guesses', current_guess', last_error').panic
       THEN /\ pc' = "panicked"
            /\ out' = o
            /\ UNCHANGED screen
       ELSE /\ pc' = "done"
            /\ screen' = render(guesses', current_guess', last_error').value
            /\ out' = Append(o, "You lost!")

\* The code after the loop (lines 267-271): the last render, then the loss
\* message unless the game is won.  o is what was printed so far.
Finish(how, o) ==
    /\ exit_by' = how
    /\ IF render(guesses', current_guess', last_error').panic
       THEN /\ pc' = "panicked"
            /\ out' = o
            /\ UNCHANGED screen
       ELSE /\ pc' = "done"
            /\ screen' = render(guesses', current_guess', last_error').value
            /\ out' = IF won_of(guesses') THEN o ELSE Append(o, "You lost!")

\* A render inside the loop, then the next stdin.next().
RenderAndAwait ==
    /\ UNCHANGED <<exit_by, out>>
    /\ IF render(guesses', current_guess', last_error').panic
       THEN /\ pc' = "panicked"
            /\ UNCHANGED screen
       ELSE /\ pc' = "await"
            /\ screen' = render(guesses', current_guess', last_error').value

\* Key::Esc: break 'game_loop
KeyEsc ==
    /\ pc = "await"
    /\ key' = "esc"
    /\ UNCHANGED <<engine, call>>
    /\ Finish("esc", out)

\* Key::Backspace: back(), no render, the next key
KeyBackspace ==
    /\ pc = "await"
    /\ key' = "backspace"
    /\ back
    /\ UNCHANGED <<pc, exit_by, screen, out>>

\* Key::Char(c), c not a newline: add_char(c), render
KeyChar ==
    /\ pc = "await"
    /\ key' = "char"
    /\ \E c \in Chars : add_char(c)
    /\ RenderAndAwait

\* The Enter key with the loop's condition off by one (<= 6 for < 6).
KeyEnter_off_by_one ==
    /\ pc = "await"
    /\ key' = "enter"
    /\ confirm
    /\ IF last_error' = "None" /\ won_of(guesses')
       THEN Finish("won", Append(out, "You won!"))
       ELSE IF Len(guesses') <= 6
            THEN RenderAndAwait
            ELSE Finish("tries", out)

\* The Enter key without the win check and break of lines 256-264: the
\* loop goes on after a win.
KeyEnter_no_win_break ==
    /\ pc = "await"
    /\ key' = "enter"
    /\ confirm
    /\ IF Len(guesses') < 6
       THEN RenderAndAwait
       ELSE Finish("tries", out)

\* Key::Char('\n'): confirm(), break 'input_loop, the win check (lines
\* 256-264), and either the end of the game or the loop's next round.
KeyEnter ==
    /\ pc = "await"
    /\ key' = "enter"
    /\ confirm
    /\ IF last_error' = "None" /\ won_of(guesses')
       THEN Finish("won", Append(out, "You won!"))
       ELSE IF Len(guesses') < 6
            THEN RenderAndAwait
            ELSE Finish("tries", out)

\* Any other key: nothing
KeyOther ==
    /\ pc = "await"
    /\ key' = "other"
    /\ UNCHANGED <<engine, call, pc, exit_by, screen, out>>

\* stdin.next() yields None or an error (the input is closed): the unwrap
\* of line 238 panics.
KeyNone ==
    /\ pc = "await"
    /\ key' = "eof"
    /\ pc' = "panicked"
    /\ UNCHANGED <<engine, call, exit_by, screen, out>>

LoopNext ==
    KeyEsc \/ KeyBackspace \/ KeyChar \/ KeyEnter \/ KeyOther \/ KeyNone

LoopSpec == LoopInit /\ [][LoopNext]_vars

\* ----------------------------------------------------------------- claims
\* Lengths are String::len() values, that is UTF-8 byte lengths, wherever
\* the source compares len(): L is len(word).

Submitted == call.op \in {"guess", "confirm"}
Accepted == Submitted /\ call.ret \in {"Ok_true", "Ok_false"}
Rejected == Submitted /\ call.ret \in GameError

RuleMark(g, k) ==
    IF k <= Len(word) /\ g[k] = word[k] THEN "Hit"
    ELSE IF \E j \in 1..Len(word) : word[j] = g[k] THEN "Contains"
    ELSE "Miss"

\* C4 as claimed: every submitted guess has feedback, of exactly L marks
\* (L read as the word's byte length or as its number of chars), each mark
\* following the Hit / Contains / Miss rule.
C4_FeedbackDefined ==
    \A i \in 0..(Len(guesses) - 1) :
        LET h == get_guess_hits(i)
        IN  /\ ~h.panic
            /\ Len(h.value) = len(word) \/ Len(h.value) = Len(word)
            /\ \A k \in 1..Len(h.value) :
                   h.value[k] = RuleMark(guesses[i + 1], k)

\* C5: won() is true exactly when the history is not empty and its last
\* entry is the word; it is false on the empty history, an accepted guess
\* makes it (guess = word), and a rejected guess or a buffer edit leaves it
\* as it was.
C5_Won ==
    /\ won <=> (guesses # <<>> /\ guesses[Len(guesses)] = word)
    /\ call.op = "new" => ~won
    /\ Accepted => (won <=> call.arg = word)
    /\ (Rejected \/ call.op \in {"add_char", "back"})
           => (won <=> (call.old.guesses # <<>>
                        /\ call.old.guesses[Len(call.old.guesses)] = word))

\* C5 happens: the word is in the history, but a later accepted guess is
\* the last entry, and a rejected guess followed.
C5_Witness ==
    /\ Rejected
    /\ Len(guesses) >= 2
    /\ guesses[1] = word
    /\ guesses[Len(guesses)] # word

\* C6 as claimed: the buffer never holds more chars than the word has;
\* add_char on a buffer of that many chars changes nothing, and on a
\* shorter buffer appends the char.
C6_BufferBound ==
    /\ Len(current_guess) <= Len(word)
    /\ call.op = "add_char" =>
           IF Len(call.old.current_guess) >= Len(word)
           THEN current_guess = call.old.current_guess
           ELSE current_guess = Append(call.old.current_guess, call.arg[1])

\* C7: the buffer is empty right after every confirm(), accepted or
\* rejected.
C7_ConfirmClears == call.op = "confirm" => current_guess = <<>>

\* C7 happens: a confirm() of a non-empty buffer was rejected as an
\* invalid word.
C7_Witness ==
    /\ call.op = "confirm"
    /\ call.ret = "InvalidWord"
    /\ call.old.current_guess # <<>>

\* C8: back() on an empty buffer changes nothing, on a non-empty buffer
\* removes exactly the last char; add_char and back leave the history, the
\* error, the word and the word list alone.
C8_BackAndFrame ==
    /\ call.op = "back" =>
           IF call.old.current_guess = <<>>
           THEN current_guess = <<>>
           ELSE current_guess = SubSeq(call.old.current_guess, 1,
                                       Len(call.old.current_guess) - 1)
    /\ call.op \in {"back", "add_char"} =>
           /\ guesses = call.old.guesses
           /\ last_error = call.old.last_error
           /\ word = call.old.word
           /\ valid_words = call.old.valid_words

\* C8 happens: with an error showing and a guess in the history, back()
\* removed a two-byte char and left one char.
C8_Witness ==
    /\ call.op = "back"
    /\ Len(call.old.current_guess) = 2
    /\ call.old.current_guess[2] = "ae"
    /\ Len(current_guess) = 1
    /\ last_error # "None"
    /\ guesses # <<>>

\* C9: the error is Some(r) exactly when there was a confirm() and the most
\* recent one was rejected with r.
C9_LastError ==
    /\ last_error \in GameError <=> call.last_confirm \in GameError
    /\ last_error \in GameError => last_error = call.last_confirm
    /\ last_error \notin GameError => last_error = "None"

\* C9 happens: an accepted confirm() cleared an error, and edits followed.
C9_Witness ==
    /\ call.op = "add_char"
    /\ call.last_confirm \in {"Ok_true", "Ok_false"}
    /\ last_error = "None"
    /\ guesses # <<>>

\* C10: under game_loop the history never holds more than max_tries
\* entries; the loop awaits a key only while fewer than max_tries guesses
\* are recorded, the game is not won and Esc was not pressed, and once it
\* has stopped awaiting, the engine is never touched again; a rejected
\* confirm adds no entry and the loop awaits the next key.
C10_LoopStops ==
    /\ [](Len(guesses) <= max_tries)
    /\ [](pc = "await"
            => (Len(guesses) < max_tries /\ ~won /\ exit_by = "none"))
    /\ [](exit_by = "tries" => Len(guesses) = max_tries)
    /\ [](exit_by = "won" => won)
    /\ []((key = "enter" /\ call.ret \in GameError)
            => (pc = "await" /\ guesses = call.old.guesses))
    /\ [](key = "esc" => pc # "await")
    /\ [][pc # "await" => UNCHANGED vars]_vars

\* C10 happens: the loop ended on its sixth recorded guess, none of them
\* the word.
C10_Witness ==
    /\ pc = "done"
    /\ exit_by = "tries"
    /\ Len(guesses) = max_tries
    /\ ~won

\* C11 as claimed: when the loop has ended, the loss message (with the
\* word) was printed exactly when the history holds max_tries entries and
\* the game is not won; a game ended by Esc before that prints no loss.
C11_LossOnlyOnTries ==
    pc = "done" =>
        (("You lost!" \in {out[k] : k \in 1..Len(out)})
            <=> (Len(guesses) = max_tries /\ ~won))

\* C12 as claimed: whenever the loop waits for a key, what was rendered
\* last is the render of the engine's current state.
C12_ScreenCurrent ==
    pc = "await" =>
        /\ ~render(guesses, current_guess, last_error).panic
        /\ screen = render(guesses, current_guess, last_error).value

C14_FeedbackStable ==
    /\ \A i \in 0..(Len(call.old.guesses) - 1) :
           get_guess_hits(i) = hits_of(call.old.guesses, i)
    /\ \A i \in 0..(Len(guesses) - 1) :
           get_guess_hits(i) = hits_of(<<guesses[i + 1]>>, 0)

\* C14 happens: two rows with different marks, and an edit after them.
C14_Witness ==
    /\ Len(guesses) = 2
    /\ ~get_guess_hits(0).panic
    /\ ~get_guess_hits(1).panic
    /\ get_guess_hits(0) # get_guess_hits(1)
    /\ call.op = "add_char"

\* The snapshot C15 describes, for rows of n cells.
ExpectedRow(n, y) ==
    IF y < Len(guesses)
    THEN [x \in 1..n |-> [ch |-> guesses[y + 1][x],
                          hit |-> RuleMark(guesses[y + 1], x)]]
    ELSE IF y = Len(guesses)
    THEN [x \in 1..n |-> [ch |-> IF x <= Len(current_guess)
                                 THEN current_guess[x] ELSE "_",
                          hit |-> "None"]]
    ELSE [x \in 1..n |-> [ch |-> "_", hit |-> "None"]]

\* C15 as claimed: the render of every state has max_tries rows of L cells
\* (L read as the word's byte length or as its number of chars): submitted
\* rows show the guess with its marks, the next row the buffer and then
\* placeholders, later rows placeholders only.
C15_Snapshot ==
    LET r == render(guesses, current_guess, last_error)
    IN  /\ ~r.panic
        /\ Len(r.value.rows) = max_tries
        /\ \E n \in {len(word), Len(word)} :
               /\ \A y \in 0..(Len(guesses) - 1) : Len(guesses[y + 1]) = n
               /\ Len(current_guess) <= n
               /\ \A y \in 0..(max_tries - 1) :
                      r.value.rows[y + 1] = ExpectedRow(n, y)

\* The keys that type the word and win, from a state where the loop waits:
\* every prefix of the word is rendered after its last char is typed, and
\* the confirm of the word is accepted as a win.
WinnableByTyping ==
    /\ \A k \in 1..Len(word) :
           /\ len(SubSeq(word, 1, k - 1)) < len(word)
           /\ ~render(guesses, SubSeq(word, 1, k), last_error).panic
    /\ guess_result(word) = "Ok_true"

\* C16 as claimed: in a game made by init_game the word is in the word
\* list, a confirm() of the word is accepted with won = true, and from every
\* state where the loop waits for a key the game can still be won.
C16_Winnable ==
    /\ word \in valid_words
    /\ (key = "enter" /\ call.arg = word) => call.ret = "Ok_true"
    /\ pc = "await" => WinnableByTyping

Printed(line) == \E k \in 1..Len(out) : out[k] = line

\* C17: the loop never prints both a win and a loss; it prints the win at
\* most once, exactly when it left the loop on an accepted guess equal to
\* the word (the sixth included), and nothing after it.
C17_WinOrLoss ==
    /\ ~(Printed("You won!") /\ Printed("You lost!"))
    /\ Len(out) <= 1
    /\ Printed("You won!") <=> exit_by = "won"
    /\ exit_by = "won" =>
           /\ key = "enter"
           /\ call.op = "confirm"
           /\ call.ret = "Ok_true"
           /\ call.arg = word
           /\ guesses[Len(guesses)] = word
    /\ (pc = "done" /\ won) => out = <<"You won!">>

\* C17 happens: the sixth recorded guess is the word, and the loop ended
\* with the win printed.
C17_Witness ==
    /\ pc = "done"
    /\ Len(guesses) = max_tries
    /\ won
    /\ out = <<"You won!">>

AllHit(h) == ~h.panic /\ \A k \in 1..Len(h.value) : h.value[k] = "Hit"

\* C18: a submitted guess is the word exactly when its feedback is all
\* Hit; so won() holds exactly when the history is not empty and the
\* feedback of its last entry is all Hit.
C18_WinIffAllHit ==
    /\ \A i \in 0..(Len(guesses) - 1) :
           (guesses[i + 1] = word) <=> AllHit(get_guess_hits(i))
    /\ won <=> (guesses # <<>> /\ AllHit(get_guess_hits(Len(guesses) - 1)))

\* C18 happens: the history holds the word and a guess that shares a
\* char with it in another place.
C18_Witness ==
    /\ Len(guesses) = 2
    /\ guesses[1] = word
    /\ ~get_guess_hits(1).panic
    /\ \E k \in 1..Len(get_guess_hits(1).value) :
           get_guess_hits(1).value[k] = "Contains"

\* C19: under game_loop no entry of the history but the last is the word,
\* and won() never goes from true back to false.
C19_WordOnlyLast ==
    /\ [](\A k \in 1..(Len(guesses) - 1) : guesses[k] # word)
    /\ [][won => won']_vars

\* C19 happens: the game was won on a guess after the first.
C19_Witness ==
    /\ won
    /\ Len(guesses) >= 2
    /\ pc = "done"

====
